---- MODULE Spec2Model ----
(***************************************************************************)
(* NullPortfolioConstructionModel                                          *)
(* (src/Algorithm.Framework/Portfolio/NullPortfolioConstructionModel.py).  *)
(*                                                                         *)
(* The class has two methods, CreateTargets (`return []`) and              *)
(* OnSecuritiesChanged (`pass`), no __init__ and no data attributes.       *)
(* The model keeps the Python objects the two methods could touch: the     *)
(* list objects (the caller's insights list and every list a call          *)
(* returned), the algorithm object, the SecurityChanges object, the        *)
(* attribute dictionaries of each instance and of the class, and for each  *)
(* calling thread its frame, its return value and the exception, if any,   *)
(* that left the call.                                                     *)
(***************************************************************************)
EXTENDS Integers, Sequences, FiniteSets

\* ------------------------------------------------------------------ bounds
MaxInsights == 2
MaxAppend == 2

Threads == {"t1", "t2"}
Instances == {"m1", "m2"}
Insights == {"insight"}
Symbols == {"secA", "secB"}
Target == "target"

\* List objects: the caller's insights list, and room for one returned list
\* per thread.
InsightsRef == Cardinality(Threads) + 1
ObjIds == 1..InsightsRef

Methods == {"CreateTargets", "OnSecuritiesChanged"}

VARIABLES heap, algorithm, changes, self_dict, cls_dict,
          pc, frame, ret, raised

vars == <<heap, algorithm, changes, self_dict, cls_dict,
          pc, frame, ret, raised>>

\* ------------------------------------------------------------------ values
FreeObj == [live |-> FALSE, items |-> <<>>]
NewList(items) == [live |-> TRUE, items |-> items]

Unset == [kind |-> "unset", ref |-> {}]
NoneVal == [kind |-> "None", ref |-> {}]
ListVal(r) == [kind |-> "list", ref |-> {r}]

\* A frame holds the method called and the instance it is bound to (self).
\* history records what had already happened when the call was made:
\* "append" when some caller held a returned list it had appended to, "call"
\* when a call on the same instance had completed, "nothing" otherwise.
NoFrame == [method |-> "none", self |-> "none", history |-> "nothing"]

RECURSIVE SeqsUpTo(_, _)
SeqsUpTo(S, n) ==
    IF n = 0 THEN {<<>>}
    ELSE LET shorter == SeqsUpTo(S, n - 1)
         IN shorter \cup {Append(s, x) : s \in {q \in shorter : Len(q) = n - 1}, x \in S}

\* The references an attribute dictionary holds; an entry is <<name, value>>.
DictRefs(d) == UNION {e[2].ref : e \in d}

\* Every reference to a list object other than thread t's return value.
RefsHeldElsewhere(t) ==
    {InsightsRef}
      \cup UNION {ret[u].ref : u \in Threads \ {t}}
      \cup DictRefs(cls_dict)
      \cup UNION {DictRefs(self_dict[i]) : i \in Instances}

\* The address the allocator gives the next list object.
FreshRef == CHOOSE o \in ObjIds : ~heap[o].live /\ \A p \in ObjIds : ~heap[p].live => o <= p

\* -------------------------------------------------------------------- Init
\* The class defines no __init__ and no class-level data: a new instance has
\* an empty attribute dictionary.
Init ==
    /\ heap = [o \in ObjIds |-> IF o = InsightsRef THEN NewList(<<>>) ELSE FreeObj]
    /\ algorithm = [Securities |-> {}]
    /\ changes = [AddedSecurities |-> {}, RemovedSecurities |-> {}]
    /\ self_dict = [i \in Instances |-> {}]
    /\ cls_dict = {}
    /\ pc = [t \in Threads |-> "idle"]
    /\ frame = [t \in Threads |-> NoFrame]
    /\ ret = [t \in Threads |-> Unset]
    /\ raised = [t \in Threads |-> "none"]

\* ------------------------------------------------------------ the callers
HistoryAt(i) ==
    IF \E u \in Threads : pc[u] = "holding" THEN "append"
    ELSE IF \E u \in Threads : pc[u] = "returned" /\ frame[u].self = i THEN "call"
    ELSE "nothing"

\* Thread t calls method m of instance i with the current algorithm,
\* insights list and changes object as arguments (passed by reference).
Invoke(t, m, i) ==
    /\ pc[t] = "idle"
    /\ pc' = [pc EXCEPT ![t] = "called"]
    /\ frame' = [frame EXCEPT ![t] =
                    [method |-> m, self |-> i, history |-> HistoryAt(i)]]
    /\ UNCHANGED <<heap, algorithm, changes, self_dict, cls_dict, ret, raised>>

\* The host replaces the contents of the insights list.
HostSetInsights(s) ==
    /\ s # heap[InsightsRef].items
    /\ heap' = [heap EXCEPT ![InsightsRef].items = s]
    /\ UNCHANGED <<algorithm, changes, self_dict, cls_dict, pc, frame, ret, raised>>

\* The host changes the universe and describes the change: added securities
\* were not in the universe, removed ones were.
HostChangeSecurities(a, r) ==
    /\ a \subseteq Symbols \ algorithm.Securities
    /\ r \subseteq algorithm.Securities
    /\ changes' = [AddedSecurities |-> a, RemovedSecurities |-> r]
    /\ algorithm' = [Securities |-> (algorithm.Securities \cup a) \ r]
    /\ <<changes', algorithm'>> # <<changes, algorithm>>
    /\ UNCHANGED <<heap, self_dict, cls_dict, pc, frame, ret, raised>>

\* The caller appends a target to the list its call returned.
HostAppendTarget(t) ==
    /\ pc[t] \in {"returned", "holding"}
    /\ ret[t].kind = "list"
    /\ \E r \in ret[t].ref :
          /\ Len(heap[r].items) < MaxAppend
          /\ heap' = [heap EXCEPT ![r].items = Append(@, Target)]
    /\ pc' = [pc EXCEPT ![t] = "holding"]
    /\ UNCHANGED <<algorithm, changes, self_dict, cls_dict, frame, ret, raised>>

\* The caller drops the result; a list nothing else refers to is freed.
HostRelease(t) ==
    /\ pc[t] \in {"returned", "holding"}
    /\ heap' = [o \in ObjIds |->
                  IF o \in ret[t].ref \ RefsHeldElsewhere(t) THEN FreeObj ELSE heap[o]]
    /\ pc' = [pc EXCEPT ![t] = "idle"]
    /\ frame' = [frame EXCEPT ![t] = NoFrame]
    /\ ret' = [ret EXCEPT ![t] = Unset]
    /\ raised' = [raised EXCEPT ![t] = "none"]
    /\ UNCHANGED <<algorithm, changes, self_dict, cls_dict>>

\* ------------------------------------------------------------ the methods
\* The call of thread t leaves its frame: the value v is returned.
Return(t, v) ==
    /\ pc' = [pc EXCEPT ![t] = "returned"]
    /\ ret' = [ret EXCEPT ![t] = v]
    /\ UNCHANGED <<frame, raised>>

\* The class as written never takes the next two paths; the variants below,
\* which the properties are tried against, do.
\* A call leaves its frame with an exception.
Raise(t, e) ==
    /\ pc' = [pc EXCEPT ![t] = "returned"]
    /\ raised' = [raised EXCEPT ![t] = e]
    /\ UNCHANGED <<frame, ret>>

\* The list attribute `name` of dictionary d, if it has one.
Cached(d, name) == {e[2] : e \in {x \in d : x[1] = name}}

\* Variant: one target built per insight received.
CreateTargetsItems_PerInsight(alg, ins) == [k \in 1..Len(ins) |-> Target]

\* The items of the list that `[]` builds; neither argument is read.
CreateTargetsItems(alg, ins) == <<>>

\* Variant: the insights are consumed (`del insights[:]`) before returning.
CreateTargets_Consume(t) ==
    /\ pc[t] = "called"
    /\ frame[t].method = "CreateTargets"
    /\ \E o \in ObjIds : ~heap[o].live
    /\ heap' = [heap EXCEPT ![FreshRef] = NewList(<<>>), ![InsightsRef].items = <<>>]
    /\ Return(t, ListVal(FreshRef))
    /\ UNCHANGED <<algorithm, changes, self_dict, cls_dict>>

\* Variant: the empty list is built once per instance and kept in
\* self._targets; every call returns that list.
CreateTargets_Cached(t) ==
    /\ pc[t] = "called"
    /\ frame[t].method = "CreateTargets"
    /\ LET i == frame[t].self
           kept == Cached(self_dict[i], "_targets")
       IN IF kept # {}
          THEN /\ \E v \in kept : Return(t, v)
               /\ UNCHANGED <<heap, self_dict>>
          ELSE /\ \E o \in ObjIds : ~heap[o].live
               /\ heap' = [heap EXCEPT ![FreshRef] = NewList(<<>>)]
               /\ self_dict' = [self_dict EXCEPT ![i] = @ \cup {<<"_targets", ListVal(FreshRef)>>}]
               /\ Return(t, ListVal(FreshRef))
    /\ UNCHANGED <<algorithm, changes, cls_dict>>

\* Variant: the empty list is a class-level object (a mutable default,
\* `_empty = []`) that every call on every instance returns.
CreateTargets_SharedDefault(t) ==
    /\ pc[t] = "called"
    /\ frame[t].method = "CreateTargets"
    /\ LET kept == Cached(cls_dict, "_empty")
       IN IF kept # {}
          THEN /\ \E v \in kept : Return(t, v)
               /\ UNCHANGED <<heap, cls_dict>>
          ELSE /\ \E o \in ObjIds : ~heap[o].live
               /\ heap' = [heap EXCEPT ![FreshRef] = NewList(<<>>)]
               /\ cls_dict' = cls_dict \cup {<<"_empty", ListVal(FreshRef)>>}
               /\ Return(t, ListVal(FreshRef))
    /\ UNCHANGED <<algorithm, changes, self_dict>>

\* Variant: the insights are validated; an empty list raises ValueError.
CreateTargets_Strict(t) ==
    /\ pc[t] = "called"
    /\ frame[t].method = "CreateTargets"
    /\ IF heap[InsightsRef].items = <<>>
       THEN /\ Raise(t, "ValueError")
            /\ UNCHANGED heap
       ELSE /\ \E o \in ObjIds : ~heap[o].live
            /\ heap' = [heap EXCEPT ![FreshRef] = NewList(<<>>)]
            /\ Return(t, ListVal(FreshRef))
    /\ UNCHANGED <<algorithm, changes, self_dict, cls_dict>>

\* def CreateTargets(self, algorithm, insights): return []
CreateTargets(t) ==
    /\ pc[t] = "called"
    /\ frame[t].method = "CreateTargets"
    /\ \E o \in ObjIds : ~heap[o].live
    /\ heap' = [heap EXCEPT ![FreshRef] =
                   NewList(CreateTargetsItems(algorithm, heap[InsightsRef].items))]
    /\ Return(t, ListVal(FreshRef))
    /\ UNCHANGED <<algorithm, changes, self_dict, cls_dict>>

\* Variant: the descriptor is drained as it is acknowledged.
OnSecuritiesChanged_Drain(t) ==
    /\ pc[t] = "called"
    /\ frame[t].method = "OnSecuritiesChanged"
    /\ changes' = [AddedSecurities |-> {}, RemovedSecurities |-> {}]
    /\ Return(t, NoneVal)
    /\ UNCHANGED <<heap, algorithm, self_dict, cls_dict>>

\* def OnSecuritiesChanged(self, algorithm, changes): pass
OnSecuritiesChanged(t) ==
    /\ pc[t] = "called"
    /\ frame[t].method = "OnSecuritiesChanged"
    /\ Return(t, NoneVal)
    /\ UNCHANGED <<heap, algorithm, changes, self_dict, cls_dict>>

\* -------------------------------------------------------------------- Next
Next ==
    \/ \E t \in Threads, m \in Methods, i \in Instances : Invoke(t, m, i)
    \/ \E s \in SeqsUpTo(Insights, MaxInsights) : HostSetInsights(s)
    \/ \E a \in SUBSET Symbols, r \in SUBSET Symbols : HostChangeSecurities(a, r)
    \/ \E t \in Threads : HostAppendTarget(t)
    \/ \E t \in Threads : HostRelease(t)
    \/ \E t \in Threads : CreateTargets(t)
    \/ \E t \in Threads : OnSecuritiesChanged(t)

Spec == Init /\ [][Next]_vars

\* ---------------------------------------------------------------- properties
ReturnedFrom(t, m) == pc[t] = "returned" /\ frame[t].method = m

ResultIsEmptyList(t) ==
    /\ ret[t].kind = "list"
    /\ Cardinality(ret[t].ref) = 1
    /\ \A r \in ret[t].ref : heap[r].live /\ heap[r].items = <<>>

InsightsNow == heap[InsightsRef].items

AllDictRefs == DictRefs(cls_dict) \cup UNION {DictRefs(self_dict[i]) : i \in Instances}

\* C1: whatever the algorithm context and the insights list hold, a call of
\* CreateTargets that has just returned has handed its caller an empty list.
C1_CreateTargetsReturnsEmpty ==
    \A t \in Threads : ReturnedFrom(t, "CreateTargets") => ResultIsEmptyList(t)

C1_Witness ==
    \E t \in Threads :
        /\ ReturnedFrom(t, "CreateTargets")
        /\ ResultIsEmptyList(t)
        /\ Len(InsightsNow) = MaxInsights
        /\ algorithm.Securities # {}

\* C2: the step in which CreateTargets runs leaves the algorithm context and
\* the insights list exactly as they were.
C2_CreateTargetsKeepsArguments ==
    [][\A t \in Threads :
          CreateTargets(t) => /\ algorithm' = algorithm
                              /\ heap'[InsightsRef] = heap[InsightsRef]]_vars

C2_Witness ==
    \E t \in Threads :
        /\ ReturnedFrom(t, "CreateTargets")
        /\ Len(InsightsNow) > 0
        /\ algorithm.Securities # {}

\* C3: the step in which OnSecuritiesChanged runs returns None and leaves
\* the algorithm context and the changes descriptor exactly as they were.
C3_OnSecuritiesChangedIsNoOp ==
    [][\A t \in Threads :
          OnSecuritiesChanged(t) => /\ ret'[t] = NoneVal
                                    /\ algorithm' = algorithm
                                    /\ changes' = changes]_vars

C3_Witness ==
    \E t \in Threads :
        /\ ReturnedFrom(t, "OnSecuritiesChanged")
        /\ ret[t] = NoneVal
        /\ changes.AddedSecurities # {}
        /\ changes.RemovedSecurities # {}

\* C4: no instance (and not the class) ever holds a data attribute, and a
\* CreateTargets call made after earlier calls had completed, or after a
\* caller had appended to a list it got, still returns an empty list.
C4_HistoryIndependent ==
    /\ cls_dict = {}
    /\ \A i \in Instances : self_dict[i] = {}
    /\ \A t \in Threads :
          (ReturnedFrom(t, "CreateTargets") /\ frame[t].history # "nothing")
              => ResultIsEmptyList(t)

C4_Witness ==
    \E t \in Threads, u \in Threads :
        /\ t # u
        /\ ReturnedFrom(t, "CreateTargets")
        /\ frame[t].history = "call"
        /\ ResultIsEmptyList(t)
        /\ ReturnedFrom(u, "OnSecuritiesChanged")
        /\ frame[u].self = frame[t].self
        /\ frame[u].history = "call"

\* C5: a call that has been made can always run to its end, and a call that
\* has ended raised nothing and returned its proper value: a list from
\* CreateTargets, None from OnSecuritiesChanged.
C5_Total ==
    \A t \in Threads :
        /\ pc[t] = "called" => ENABLED (CreateTargets(t) \/ OnSecuritiesChanged(t))
        /\ pc[t] \in {"returned", "holding"} =>
              /\ raised[t] = "none"
              /\ ret[t].kind = IF frame[t].method = "CreateTargets" THEN "list" ELSE "None"

C5_Witness ==
    \E t \in Threads, u \in Threads :
        /\ ReturnedFrom(t, "CreateTargets")
        /\ ReturnedFrom(u, "OnSecuritiesChanged")
        /\ raised[t] = "none" /\ raised[u] = "none"
        /\ InsightsNow = <<>>
        /\ changes.AddedSecurities = {} /\ changes.RemovedSecurities = {}

\* C6: in every interleaving, the step in which one thread's call runs
\* returns (for CreateTargets) a list that did not exist before the step and
\* is empty, changes nothing another thread holds, and writes no attribute
\* of the instance or the class.
C6_NoInterference ==
    [][\A t \in Threads :
          (CreateTargets(t) \/ OnSecuritiesChanged(t)) =>
              /\ \A r \in ret'[t].ref : ~heap[r].live /\ heap'[r] = NewList(<<>>)
              /\ \A u \in Threads \ {t} :
                    /\ ret'[u] = ret[u] /\ pc'[u] = pc[u]
                    /\ frame'[u] = frame[u] /\ raised'[u] = raised[u]
                    /\ \A r \in ret[u].ref : heap'[r] = heap[r]
              /\ self_dict' = self_dict
              /\ cls_dict' = cls_dict]_vars

\* Two calls of CreateTargets on one instance that overlapped (neither saw
\* the other completed when it was made) and have both returned.
C6_Witness ==
    \E t \in Threads, u \in Threads :
        /\ t # u
        /\ ReturnedFrom(t, "CreateTargets") /\ ReturnedFrom(u, "CreateTargets")
        /\ frame[t].self = frame[u].self
        /\ frame[t].history = "nothing" /\ frame[u].history = "nothing"
        /\ ResultIsEmptyList(t) /\ ResultIsEmptyList(u)

\* C7: a list a caller holds is its own: no other caller holds it, it is not
\* the insights list, no instance or class attribute refers to it; and a
\* list just returned is empty whatever callers did to lists they got before.
C7_FreshList ==
    \A t \in Threads :
        ret[t].kind = "list" =>
            /\ \A r \in ret[t].ref :
                  /\ r # InsightsRef
                  /\ r \notin AllDictRefs
                  /\ \A u \in Threads \ {t} : r \notin ret[u].ref
            /\ pc[t] = "returned" => ResultIsEmptyList(t)

C7_Witness ==
    \E t \in Threads, u \in Threads :
        /\ t # u
        /\ pc[u] = "holding"
        /\ \E r \in ret[u].ref : Len(heap[r].items) = MaxAppend
        /\ ReturnedFrom(t, "CreateTargets")
        /\ frame[t].history = "append"
        /\ frame[t].self = frame[u].self
        /\ ResultIsEmptyList(t)
====
